---- MODULE Spec2Model ----
(***************************************************************************)
(* AI hiring agent: a Flask service (backend/flaskapi.py) that scores a    *)
(* resume PDF with a hosted model, and a Streamlit dashboard               *)
(* (frontend/stream.py) that uploads resumes, scrapes score and skills out *)
(* of the returned free text and filters the candidates.                   *)
(*                                                                         *)
(* Text is modelled as TLA+ strings, character by character: the Python    *)
(* string operations the code uses (in, split, strip, startswith, lower,   *)
(* isdigit, int, join, slicing) are operators over those strings.          *)
(***************************************************************************)
EXTENDS Integers, Sequences, FiniteSets, TLC

VARIABLES
    \* ---- backend process (flaskapi.py) ----
    GOOGLE_API_KEY,        \* module global: None or the key string
    model_to_use,          \* module global
    available_models,      \* module global: list of model names
    request,               \* the /analyze request being answered (None before the first)
    response,              \* the answer to it: [status, json]
    extracted,             \* whether extract_text_from_pdf ran for that request
    calls,                 \* the generate_content calls made for that request, in order
    \* ---- dashboard session (stream.py, st.session_state and one script run) ----
    evaluated_candidates,  \* st.session_state.evaluated_candidates: list of candidate dicts
    filtered_candidates,   \* st.session_state.filtered_candidates: references (indices) into it
    min_score,             \* st.session_state.min_score
    required_skills,       \* st.session_state.required_skills
    uploaded_files,        \* the files of the analysis run in progress
    i,                     \* loop index of the run (0-based, as enumerate gives it)
    successful_analyses,   \* local counter of the run
    posted,                \* the files whose /analyze request has been sent in this run, in order
    last,                  \* what the dashboard did last (position of the script)
    \* ---- locals of analyze_single_resume, for the extraction heuristics ----
    analysis_text, score, skills, verdict, candidate, epc

backendVars == <<GOOGLE_API_KEY, model_to_use, available_models, request, response,
                 extracted, calls>>
dashVars    == <<evaluated_candidates, filtered_candidates, min_score, required_skills,
                 uploaded_files, i, successful_analyses, posted, last>>
extractVars == <<analysis_text, score, skills, verdict, candidate, epc>>
vars        == <<backendVars, dashVars, extractVars>>

-----------------------------------------------------------------------------
(* Python values *)

\* Python's None and a present value, kept apart from every string and number.
None    == <<>>
Some(v) == <<v>>
IsNone(o) == o = <<>>
Val(o)  == o[1]

-----------------------------------------------------------------------------
(* Python string operations, over TLA+ strings *)

\* s[k], 1-based, as a one-character string
Ch(s, k) == SubSeq(s, k, k)

\* s[k:], 0-based k as in Python
From(s, k) == SubSeq(s, k + 1, Len(s))

\* the 1-based positions at which sub occurs in s
Occurrences(s, sub) ==
    {k \in 1..(Len(s) - Len(sub) + 1) : SubSeq(s, k, k + Len(sub) - 1) = sub}

\* s.find(sub) + 1: the 1-based position of the first occurrence, 0 when absent
Find(s, sub) ==
    LET hits == Occurrences(s, sub) IN
    IF hits = {} THEN 0 ELSE CHOOSE k \in hits : \A j \in hits : k <= j

\* sub in s
Contains(s, sub) == Find(s, sub) # 0

\* s.split(sep): the list of the pieces between the non-overlapping occurrences
RECURSIVE Split(_, _)
Split(s, sep) ==
    LET k == Find(s, sep) IN
    IF k = 0 THEN <<s>>
    ELSE <<SubSeq(s, 1, k - 1)>> \o Split(SubSeq(s, k + Len(sep), Len(s)), sep)

\* sep.join(parts)
RECURSIVE Join(_, _)
Join(sep, parts) ==
    IF parts = <<>> THEN ""
    ELSE IF Len(parts) = 1 THEN parts[1]
    ELSE parts[1] \o sep \o Join(sep, Tail(parts))

\* str.isspace for one character (the ASCII whitespace str.strip removes)
IsSpace(c) == c \in {" ", "\n", "\t", "\r", "\f"}

RECURSIVE LStrip(_)
LStrip(s) == IF s # "" /\ IsSpace(Ch(s, 1)) THEN LStrip(From(s, 1)) ELSE s

RECURSIVE RStrip(_)
RStrip(s) == IF s # "" /\ IsSpace(Ch(s, Len(s))) THEN RStrip(SubSeq(s, 1, Len(s) - 1)) ELSE s

\* s.strip()
Strip(s) == RStrip(LStrip(s))

\* s.startswith(p)
StartsWith(s, p) == Len(s) >= Len(p) /\ SubSeq(s, 1, Len(p)) = p

UpperLetters == "ABCDEFGHIJKLMNOPQRSTUVWXYZ"
LowerLetters == "abcdefghijklmnopqrstuvwxyz"

LowerCh(c) ==
    LET k == Find(UpperLetters, c) IN IF k = 0 THEN c ELSE Ch(LowerLetters, k)

\* s.lower()
RECURSIVE Lower(_)
Lower(s) == IF s = "" THEN "" ELSE LowerCh(Ch(s, 1)) \o Lower(From(s, 1))

DigitChars == "0123456789"

\* str.isdigit for one character
IsDigit(c) == Contains(DigitChars, c)

\* ''.join(filter(str.isdigit, s))
RECURSIVE FilterDigits(_)
FilterDigits(s) ==
    IF s = "" THEN ""
    ELSE (IF IsDigit(Ch(s, 1)) THEN Ch(s, 1) ELSE "") \o FilterDigits(From(s, 1))

\* int(s) for a non-empty string of decimal digits
RECURSIVE IntOfDigits(_)
IntOfDigits(s) ==
    IF s = "" THEN 0
    ELSE 10 * IntOfDigits(SubSeq(s, 1, Len(s) - 1)) + (Find(DigitChars, Ch(s, Len(s))) - 1)

\* int(s): Some(n), or None where Python raises ValueError (s is empty)
ParseInt(s) == IF s = "" THEN None ELSE Some(IntOfDigits(s))

\* str(n) for n >= 0
RECURSIVE Str(_)
Str(n) == IF n < 10 THEN Ch(DigitChars, n + 1)
          ELSE Str(n \div 10) \o Ch(DigitChars, (n % 10) + 1)

-----------------------------------------------------------------------------
(* frontend/stream.py: the extraction heuristics *)

extract_score_anydigits(text) == ParseInt(FilterDigits(text))

\* extract_score(analysis_text): Some(score) or None.  The bare except turns the
\* ValueError of int('') into None.
extract_score(text) ==
    IF Contains(text, "Score")
    THEN LET score_text == Split(Split(text, "Score")[2], "\n")[1]
         IN  ParseInt(FilterDigits(score_text))
    ELSE None

\* the loop body of extract_skills over the lines of the Strengths span
RECURSIVE SkillLines(_)
SkillLines(lines) ==
    IF lines = <<>> THEN <<>>
    ELSE (IF StartsWith(Strip(lines[1]), "-") THEN <<From(Strip(lines[1]), 2)>> ELSE <<>>)
         \o SkillLines(Tail(lines))

\* extract_skills(analysis_text)
extract_skills(text) ==
    IF Contains(text, "Strengths:")
    THEN LET strengths_text == Split(Split(text, "Strengths:")[2], "Weaknesses:")[1]
         IN  SkillLines(Split(strengths_text, "\n"))
    ELSE <<>>

\* the verdict of analyze_single_resume
extract_verdict(text) ==
    IF Contains(text, "Final Verdict")
    THEN Strip(Split(text, "Final Verdict")[2])
    ELSE LET paras == Split(text, "\n\n") IN paras[Len(paras)]

\* "score": score if score is not None else 0
candidate_score(sc) == IF IsNone(sc) THEN 0 ELSE Val(sc)

\* the candidate record analyze_single_resume builds from a file and an analysis text
make_candidate(file, text, sc, sk, vd) ==
    [name          |-> Split(file.name, ".")[1],
     analysis      |-> text,
     score         |-> candidate_score(sc),
     skills        |-> sk,
     verdict       |-> vd,
     file          |-> file,
     filtered_out  |-> FALSE,
     filter_reason |-> ""]

-----------------------------------------------------------------------------
(* frontend/stream.py: filter_candidates *)

\* the inner loop: some extracted skill (lower-cased) contains the required skill
skill_found(skill, candidate_skills_lower) ==
    \E k \in 1..Len(candidate_skills_lower) :
        Contains(candidate_skills_lower[k], Lower(skill))

\* [skill.lower() for skill in candidate["skills"]]
RECURSIVE LowerAll(_)
LowerAll(list) ==
    IF list = <<>> THEN <<>> ELSE <<Lower(list[1])>> \o LowerAll(Tail(list))

\* the required skills, in order, that the candidate has no match for
RECURSIVE missing_skills(_, _)
missing_skills(required, candidate_skills_lower) ==
    IF required = <<>> THEN <<>>
    ELSE (IF skill_found(required[1], candidate_skills_lower) THEN <<>> ELSE <<required[1]>>)
         \o missing_skills(Tail(required), candidate_skills_lower)

score_below_strict(sc, minimum) == sc <= minimum

score_above(sc, minimum) == sc > minimum

\* candidate["score"] < st.session_state.min_score
score_below(sc, minimum) == sc < minimum

skills_missing_none(c, required) == <<>>

\* the skill check of one candidate: the list missing_skills ([] when nothing is required)
skills_missing(c, required) ==
    IF required # <<>> THEN missing_skills(required, LowerAll(c.skills)) ELSE <<>>

filter_one_skills_first(c, minimum, required) ==
    LET missing == skills_missing(c, required) IN
    IF missing # <<>>
    THEN [c EXCEPT !.filtered_out = TRUE,
                   !.filter_reason = "Missing required skills: " \o Join(", ", missing)]
    ELSE IF score_below(c.score, minimum)
         THEN [c EXCEPT !.filtered_out = TRUE,
                        !.filter_reason = "Score below minimum (" \o Str(c.score) \o " < "
                                          \o Str(minimum) \o ")"]
         ELSE [c EXCEPT !.filtered_out = FALSE, !.filter_reason = ""]

\* one iteration of the loop of filter_candidates: the candidate with its flags recomputed
filter_one(c, minimum, required) ==
    IF score_below(c.score, minimum)
    THEN [c EXCEPT !.filtered_out = TRUE,
                   !.filter_reason = "Score below minimum (" \o Str(c.score) \o " < "
                                     \o Str(minimum) \o ")"]
    ELSE LET missing == skills_missing(c, required) IN
         IF missing # <<>>
         THEN [c EXCEPT !.filtered_out = TRUE,
                        !.filter_reason = "Missing required skills: " \o Join(", ", missing)]
         ELSE [c EXCEPT !.filtered_out = FALSE, !.filter_reason = ""]

filter_all_dropping(cands, minimum, required) ==
    SelectSeq([k \in 1..Len(cands) |-> filter_one(cands[k], minimum, required)],
              LAMBDA c : ~c.filtered_out)

\* the candidates after the loop
filter_all(cands, minimum, required) ==
    [k \in 1..Len(cands) |-> filter_one(cands[k], minimum, required)]

\* the list `filtered`: references to the candidates not filtered out, in list order
RECURSIVE KeptFrom(_, _)
KeptFrom(cands, k) ==
    IF k > Len(cands) THEN <<>>
    ELSE (IF cands[k].filtered_out THEN <<>> ELSE <<k>>) \o KeptFrom(cands, k + 1)

\* filter_candidates(): the new session state [evaluated, filtered]
filter_candidates(cands, minimum, required) ==
    LET after == filter_all(cands, minimum, required) IN
    [evaluated |-> after, filtered |-> KeptFrom(after, 1)]

-----------------------------------------------------------------------------
(* backend/flaskapi.py: start-up *)

DEFAULT_MODEL == "gemini-1.5-pro"

\* os.getenv(name): None when unset (env holds an optional string per name)
getenv(env, name) == env[name]

\* Python truthiness of an optional string: not None and not ''
Truthy(o) == ~IsNone(o) /\ Val(o) # ""

\* model.replace("models/", "")
RemovePrefixes(m) == Join("", Split(m, "models/"))

\* the first listed model with 'gemini' and 'pro' in its lower-cased name
RECURSIVE FirstGeminiPro(_)
FirstGeminiPro(models) ==
    IF models = <<>> THEN DEFAULT_MODEL
    ELSE IF Contains(Lower(models[1]), "gemini") /\ Contains(Lower(models[1]), "pro")
         THEN RemovePrefixes(models[1])
         ELSE FirstGeminiPro(Tail(models))

InList(x, list) == \E k \in 1..Len(list) : list[k] = x

\* the model chosen from the listed models, in the preferred order
choose_model(models) ==
    IF InList("models/gemini-1.5-pro", models) \/ InList("gemini-1.5-pro", models)
    THEN "gemini-1.5-pro"
    ELSE IF InList("models/gemini-pro", models) \/ InList("gemini-pro", models)
         THEN "gemini-pro"
         ELSE FirstGeminiPro(models)

\* The module-level code: env is the environment, configure1/configure2 say whether
\* each genai.configure call succeeds, listed is what genai.list_models gives
\* (None when it raises).
Startup(env, configure1, configure2, listed) ==
    LET k1  == getenv(env, "GOOGLE_API_KEY")
        key == IF Truthy(k1) THEN k1 ELSE getenv(env, "GEMINI_API_KEY")
    IN  IF configure1
        THEN [GOOGLE_API_KEY   |-> key,
              available_models |-> IF IsNone(listed) THEN <<>> ELSE Val(listed),
              model_to_use     |-> IF IsNone(listed) THEN DEFAULT_MODEL
                                   ELSE choose_model(Val(listed))]
        ELSE [GOOGLE_API_KEY   |-> IF configure2 THEN key ELSE None,
              available_models |-> <<>>,
              model_to_use     |-> DEFAULT_MODEL]

-----------------------------------------------------------------------------
(* backend/flaskapi.py: POST /analyze *)

\* "\n".join(page.extract_text() for page in pdf.pages if page.extract_text());
\* a page's extract_text() is None or a string
RECURSIVE PageTexts(_)
PageTexts(pages) ==
    IF pages = <<>> THEN <<>>
    ELSE (IF Truthy(pages[1]) THEN <<Val(pages[1])>> ELSE <<>>) \o PageTexts(Tail(pages))

\* extract_text_from_pdf(file): None when pdfplumber raises
extract_text_from_pdf(file) ==
    IF file.pdf.raises THEN None ELSE Some(Join("\n", PageTexts(file.pdf.pages)))

\* the canned text analyze_resume returns when the model calls failed; e is str(e)
error_message(e) ==
    "\n        Analysis Error:\n        \n"
    \o "        There was an error processing this resume. The error was:\n"
    \o "        " \o e \o "\n        \n"
    \o "        Score: 0\n"
    \o "        Strengths: Unable to determine due to API error\n"
    \o "        Weaknesses: Unable to determine due to API error\n"
    \o "        Final Verdict: Please try again or contact support with error details.\n"
    \o "        "

fallback_always(model, available) == TRUE

\* "gemini-1.5-pro" in model_to_use and "gemini-pro" in available_models
fallback_allowed(model, available) ==
    Contains(model, "gemini-1.5-pro") /\ InList("gemini-pro", available)

\* One attempt on a model.  at says how far it gets:
\*   "construct": genai.GenerativeModel(...) raises, nothing is sent;
\*   "generate":  generate_content raises;
\*   "text":      the call returns and response.text raises (a blocked response);
\*   "ok":        the call returns text.
\* text is the returned text, or str(e) of the exception.
Sent(attempt) == attempt.at # "construct"

\* one generate_content call as the handler's log records it
Call(model, attempt) == [model |-> model, failed |-> attempt.at # "ok"]

\* analyze_resume(resume_text, job_description) past the key check, with the outcome of
\* the primary attempt and of the backup attempt (used only when it is made).
\* Gives [result, calls]: the returned text and the generate_content calls made.
\* When the primary constructor raised, prompt is unbound: evaluating the backup
\* call's argument raises before anything is sent.
model_calls(model, available, primary, backup) ==
    IF primary.at = "ok"
    THEN [result |-> primary.text, calls |-> <<Call(model, primary)>>]
    ELSE LET first == IF Sent(primary) THEN <<Call(model, primary)>> ELSE <<>> IN
         IF fallback_allowed(model, available)
         THEN IF Sent(primary) /\ backup.at = "ok"
              THEN [result |-> backup.text,
                    calls  |-> first \o <<Call("gemini-pro", backup)>>]
              ELSE [result |-> error_message(primary.text),
                    calls  |-> first \o (IF Sent(primary) /\ Sent(backup)
                                         THEN <<Call("gemini-pro", backup)>> ELSE <<>>)]
         ELSE [result |-> error_message(primary.text), calls |-> first]

key_check_off(key) == FALSE

\* if not GOOGLE_API_KEY: raise ValueError(...)
key_missing(key) == ~Truthy(key)

\* request.form.get('job_description') / request.files.get('resume')
\* (None when the part is absent from the multipart form)
form_get(req, name)  == req.form[name]
files_get(req, name) == req.files[name]

\* not uploaded_file: None, or a FileStorage with an empty filename
NoFile(f) == IsNone(f) \/ Val(f).name = ""

fields_missing_none_only(req) ==
    IsNone(form_get(req, "job_description")) \/ IsNone(files_get(req, "resume"))

\* if not job_description or not uploaded_file
fields_missing(req) ==
    ~Truthy(form_get(req, "job_description")) \/ NoFile(files_get(req, "resume"))

text_missing_none_only(resume_text) == IsNone(resume_text)

\* if not resume_text
text_missing(resume_text) == ~Truthy(resume_text)

\* analyze(): the whole handler.  Gives the response [status, json], whether the PDF
\* was read, and the model calls made.
analyze(key, model, available, req, primary, backup) ==
    IF fields_missing(req)
    THEN [status |-> 400, json |-> [error |-> "Job description and resume are required"],
          extracted |-> FALSE, calls |-> <<>>]
    ELSE LET resume_text == extract_text_from_pdf(Val(files_get(req, "resume"))) IN
         IF text_missing(resume_text)
         THEN [status |-> 400, json |-> [error |-> "Could not extract text from the PDF"],
               extracted |-> TRUE, calls |-> <<>>]
         ELSE IF key_missing(key)
              THEN [status |-> 400,
                    json |-> [error |-> "Invalid API key. Please configure a valid API key in the .env file."],
                    extracted |-> TRUE, calls |-> <<>>]
              ELSE LET r == model_calls(model, available, primary, backup) IN
                   [status |-> 200, json |-> [analysis |-> r.result],
                    extracted |-> TRUE, calls |-> r.calls]

-----------------------------------------------------------------------------
(* Inputs *)

\* the environment: each variable unset, empty or set
EnvSamples ==
    [GOOGLE_API_KEY : {None, Some(""), Some("AIzaSyA")},
     GEMINI_API_KEY : {None, Some("AIzaSyB")}]

\* what genai.list_models() gives: it raises (None), or a list of model names
ListedSamples ==
    {None, Some(<<>>),
     Some(<<"models/gemini-1.5-pro", "models/gemini-pro">>),
     Some(<<"gemini-1.5-pro", "gemini-pro">>),
     Some(<<"models/gemini-pro">>),
     Some(<<"gemini-pro", "models/gemini-1.5-pro-latest">>),
     Some(<<"models/embedding-001", "models/gemini-1.5-pro-latest", "gemini-pro-vision">>),
     Some(<<"models/embedding-001", "models/Gemini-Ultra-Pro">>),
     Some(<<"models/gemini-1.5-flash">>)}

\* uploaded PDFs: pdfplumber raises on it, or it opens with these page texts
PdfSamples ==
    {[raises |-> TRUE,  pages |-> <<>>],
     [raises |-> FALSE, pages |-> <<>>],
     [raises |-> FALSE, pages |-> <<None>>],
     [raises |-> FALSE, pages |-> <<Some(""), None>>],
     [raises |-> FALSE, pages |-> <<Some(" ")>>],
     [raises |-> FALSE, pages |-> <<Some("Python developer")>>],
     [raises |-> FALSE, pages |-> <<Some("Python developer"), Some(""), Some("SQL")>>]}

\* the multipart file part: a FileStorage with a filename and a body
FileSamples == [name : {"", "alice.pdf"}, pdf : PdfSamples]

\* /analyze requests of any HTTP client
RequestSamples ==
    [form  : [job_description : {None, Some(""), Some("Data Scientist")}],
     files : [resume : {None} \cup {Some(f) : f \in FileSamples}]]

\* texts the model returns
ModelTexts ==
    {"Score: 82\nStrengths:\n- Python\n- SQL\nWeaknesses:\n- none\nFinal Verdict: hire",
     "Overall the resume is a weak match."}

\* str(e) of the exceptions the model client raises
ErrorTexts ==
    {"429 Resource has been exhausted",
     "404 models/gemini-1.5-pro is not found",
     "400 Request blocked. Safety Score 9 exceeds threshold"}

\* the outcomes of one attempt on a model
Attempts ==
    [at : {"ok"}, text : ModelTexts]
    \cup [at : {"construct", "generate", "text"}, text : ErrorTexts]

-----------------------------------------------------------------------------
(* Initial states *)

BackendStarted ==
    \E env \in EnvSamples, configure1 \in BOOLEAN, configure2 \in BOOLEAN,
       listed \in ListedSamples :
        LET g == Startup(env, configure1, configure2, listed) IN
        /\ GOOGLE_API_KEY = g.GOOGLE_API_KEY
        /\ model_to_use = g.model_to_use
        /\ available_models = g.available_models

BackendIdle ==
    /\ request = None
    /\ response = None
    /\ extracted = FALSE
    /\ calls = <<>>

\* the session state the script initialises
SessionEmpty ==
    /\ evaluated_candidates = <<>>
    /\ filtered_candidates = <<>>
    /\ min_score = 50
    /\ required_skills = <<>>

RunIdle ==
    /\ uploaded_files = <<>>
    /\ i = 0
    /\ successful_analyses = 0
    /\ posted = <<>>
    /\ last = "init"

ExtractIdle ==
    /\ analysis_text = ""
    /\ score = None
    /\ skills = <<>>
    /\ verdict = ""
    /\ candidate = None
    /\ epc = "idle"

-----------------------------------------------------------------------------
(* The backend serving any client: SpecApi *)

\* POST /analyze: the handler runs to its response
Analyze(req, primary, backup) ==
    LET r == analyze(GOOGLE_API_KEY, model_to_use, available_models, req, primary, backup) IN
    /\ request' = Some(req)
    /\ response' = Some([status |-> r.status, json |-> r.json])
    /\ extracted' = r.extracted
    /\ calls' = r.calls
    /\ UNCHANGED <<GOOGLE_API_KEY, model_to_use, available_models>>

\* whether the handler reaches the model for this request
ReachesModel(req) ==
    /\ ~fields_missing(req)
    /\ ~text_missing(extract_text_from_pdf(Val(files_get(req, "resume"))))
    /\ ~key_missing(GOOGLE_API_KEY)

NoAttempt == [at |-> "construct", text |-> ""]

\* whether analyze_resume goes on to the backup model after this primary attempt
TriesBackup(primary) ==
    primary.at # "ok" /\ fallback_allowed(model_to_use, available_models)

\* a request that is answered without a model call
PostRejected ==
    \E req \in RequestSamples :
        /\ request = None
        /\ ~ReachesModel(req)
        /\ Analyze(req, NoAttempt, NoAttempt)
        /\ UNCHANGED <<dashVars, extractVars>>

\* a request that reaches analyze_resume's primary model call only
PostAnalyzed ==
    \E req \in RequestSamples, primary \in Attempts :
        /\ request = None
        /\ ReachesModel(req)
        /\ ~TriesBackup(primary)
        /\ Analyze(req, primary, NoAttempt)
        /\ UNCHANGED <<dashVars, extractVars>>

\* a request whose primary attempt fails and is followed by the backup attempt
PostFallback ==
    \E req \in RequestSamples, primary \in Attempts, backup \in Attempts :
        /\ request = None
        /\ ReachesModel(req)
        /\ TriesBackup(primary)
        /\ Analyze(req, primary, backup)
        /\ UNCHANGED <<dashVars, extractVars>>

\* the response has been sent: the request and the handler's locals are gone
Replied ==
    /\ request # None
    /\ request' = None
    /\ response' = None
    /\ extracted' = FALSE
    /\ calls' = <<>>
    /\ UNCHANGED <<GOOGLE_API_KEY, model_to_use, available_models, dashVars, extractVars>>

InitApi == BackendStarted /\ BackendIdle /\ SessionEmpty /\ RunIdle /\ ExtractIdle

NextApi == PostRejected \/ PostAnalyzed \/ PostFallback \/ Replied

SpecApi == InitApi /\ [][NextApi]_vars

-----------------------------------------------------------------------------
(* Claims about POST /analyze, under SpecApi *)

Answered == request # None

Req  == Val(request)
Resp == Val(response)

IsError(r)    == "error" \in DOMAIN r.json
IsAnalysis(r) == "analysis" \in DOMAIN r.json

\* the job_description field is missing from the form, or is the empty string
JobDescriptionAbsent(req) == req.form.job_description \in {None, Some("")}

\* the resume part is missing from the form, or is the empty part a form sends when no
\* file was chosen (no filename)
ResumeAbsent(req) ==
    \/ req.files.resume = None
    \/ Val(req.files.resume).name = ""

\* the PDF gives no text: reading it raises, or every page has no or empty text
NoExtractableText(pdf) ==
    \/ pdf.raises
    \/ \A k \in 1..Len(pdf.pages) : pdf.pages[k] \in {None, Some("")}

\* C5: a POST /analyze whose resume part or job_description field is missing or empty is
\* answered 400 with an error payload, and neither the PDF is read nor the model called.
C5_MissingFieldsRejected ==
    (Answered /\ (JobDescriptionAbsent(Req) \/ ResumeAbsent(Req)))
        => /\ Resp.status = 400
           /\ IsError(Resp)
           /\ ~extracted
           /\ calls = <<>>

C5_Witness ==
    /\ Answered
    /\ ~JobDescriptionAbsent(Req)
    /\ Req.files.resume # None
    /\ Val(Req.files.resume).name = ""
    /\ ~NoExtractableText(Val(Req.files.resume).pdf)
    /\ Resp.status = 400

\* C6: with both fields present, a PDF that yields no text (reading raises, or every page
\* is empty) is answered 400 with an error containing "Could not extract text", and the
\* model is not called.
C6_UnreadablePdfRejected ==
    (/\ Answered
     /\ ~JobDescriptionAbsent(Req)
     /\ ~ResumeAbsent(Req)
     /\ NoExtractableText(Val(Req.files.resume).pdf))
        => /\ Resp.status = 400
           /\ IsError(Resp)
           /\ Contains(Resp.json.error, "Could not extract text")
           /\ calls = <<>>

C6_Witness ==
    /\ Answered
    /\ ~JobDescriptionAbsent(Req)
    /\ ~ResumeAbsent(Req)
    /\ ~Val(Req.files.resume).pdf.raises
    /\ Val(Req.files.resume).pdf.pages # <<>>
    /\ NoExtractableText(Val(Req.files.resume).pdf)
    /\ Truthy(GOOGLE_API_KEY)
    /\ Resp.status = 400

\* the handler got as far as the model and every call it made failed
UpstreamFailed ==
    /\ Answered
    /\ Resp.status = 200
    /\ \A k \in 1..Len(calls) : calls[k].failed

\* the score of the dashboard candidate built from an analysis body
DashboardScore(body) == candidate_score(extract_score(body))

\* C7: when the model call fails and no fallback succeeds, /analyze answers 200 with the
\* canned error text as the analysis, and the dashboard candidate built from that body has
\* score 0, whatever the upstream error message.
C7_CannedErrorScoresZero ==
    UpstreamFailed
        => /\ IsAnalysis(Resp)
           /\ \E e \in ErrorTexts : Resp.json.analysis = error_message(e)
           /\ DashboardScore(Resp.json.analysis) = 0

\* C7, the part the code keeps: the answer is 200 with the canned text as the analysis
C7_CannedErrorReturned ==
    UpstreamFailed
        => /\ IsAnalysis(Resp)
           /\ \E e \in ErrorTexts : Resp.json.analysis = error_message(e)

\* C8: one request makes at most two model calls; the second is the gemini-pro fallback,
\* made only after the primary call failed, only when the model in use contains
\* "gemini-1.5-pro" and "gemini-pro" is in the available-model list.
C8_AtMostOneFallback ==
    /\ Len(calls) <= 2
    /\ Len(calls) >= 1 => calls[1].model = model_to_use
    /\ Len(calls) = 2
        => /\ calls[1].failed
           /\ calls[2].model = "gemini-pro"
           /\ Contains(model_to_use, "gemini-1.5-pro")
           /\ \E k \in 1..Len(available_models) : available_models[k] = "gemini-pro"

C8_Witness ==
    /\ Answered
    /\ Len(calls) = 2
    /\ calls[2].failed

\* C9: with no API key configured, a request with a job description and an extractable
\* PDF is answered 400 with an error payload, never an analysis, and no model call is made.
C9_NoKeyNoAnalysis ==
    (/\ Answered
     /\ GOOGLE_API_KEY \in {None, Some("")}
     /\ ~JobDescriptionAbsent(Req)
     /\ ~ResumeAbsent(Req)
     /\ ~NoExtractableText(Val(Req.files.resume).pdf))
        => /\ Resp.status = 400
           /\ IsError(Resp)
           /\ ~IsAnalysis(Resp)
           /\ calls = <<>>

C9_Witness ==
    /\ Answered
    /\ GOOGLE_API_KEY = None
    /\ ~JobDescriptionAbsent(Req)
    /\ ~ResumeAbsent(Req)
    /\ ~NoExtractableText(Val(Req.files.resume).pdf)
    /\ extracted
    /\ Resp.status = 400

-----------------------------------------------------------------------------
(* The extraction heuristics on arbitrary response text: SpecExtract *)

\* longest response text, in tokens
MaxTokens == 3

\* the pieces the response texts are put together from
ScoreTokens == {"Score: 73", "Score", "/10", "\n", " of ", "5"}

\* every concatenation of at most n tokens
RECURSIVE TextsUpTo(_)
TextsUpTo(n) ==
    IF n = 0 THEN {""}
    ELSE LET shorter == TextsUpTo(n - 1) IN
         shorter \cup {t \o tok : t \in shorter, tok \in ScoreTokens}

\* the pieces the response texts with a skills section are put together from
SkillTokens == {"Strengths:\n", "Weaknesses:", "- SQL\n", "-Python\n", "  - Git \n", "Notes\n"}

\* every concatenation of at most n of those pieces
RECURSIVE SkillTextsUpTo(_)
SkillTextsUpTo(n) ==
    IF n = 0 THEN {""}
    ELSE LET shorter == SkillTextsUpTo(n - 1) IN
         shorter \cup {t \o tok : t \in shorter, tok \in SkillTokens}

ResponseTexts == TextsUpTo(MaxTokens) \cup SkillTextsUpTo(MaxTokens)

\* the file whose analysis is being parsed
ParsedFile == [name |-> "alice.pdf",
               pdf  |-> [raises |-> FALSE, pages |-> <<Some("Python developer")>>]]

\* analysis_text = result.get("analysis", ...)
InitExtract ==
    /\ BackendIdle /\ SessionEmpty
    /\ uploaded_files = <<ParsedFile>>
    /\ i = 0
    /\ successful_analyses = 0
    /\ posted = <<ParsedFile>>
    /\ last = "post"
    /\ GOOGLE_API_KEY = Some("AIzaSyA")
    /\ model_to_use = DEFAULT_MODEL
    /\ available_models = <<>>
    /\ analysis_text \in ResponseTexts
    /\ score = None
    /\ skills = <<>>
    /\ verdict = ""
    /\ candidate = None
    /\ epc = "analysis_text"

\* score = extract_score(analysis_text)
ScoreStep ==
    /\ epc = "analysis_text"
    /\ score' = extract_score(analysis_text)
    /\ epc' = "score"
    /\ UNCHANGED <<backendVars, dashVars, analysis_text, skills, verdict, candidate>>

\* skills = extract_skills(analysis_text)
SkillsStep ==
    /\ epc = "score"
    /\ skills' = extract_skills(analysis_text)
    /\ epc' = "skills"
    /\ UNCHANGED <<backendVars, dashVars, analysis_text, score, verdict, candidate>>

\* the verdict
VerdictStep ==
    /\ epc = "skills"
    /\ verdict' = extract_verdict(analysis_text)
    /\ epc' = "verdict"
    /\ UNCHANGED <<backendVars, dashVars, analysis_text, score, skills, candidate>>

\* candidate = {...}; return candidate, None
CandidateStep ==
    /\ epc = "verdict"
    /\ candidate' = Some(make_candidate(uploaded_files[i + 1], analysis_text,
                                        score, skills, verdict))
    /\ epc' = "candidate"
    /\ UNCHANGED <<backendVars, dashVars, analysis_text, score, skills, verdict>>

NextExtract == ScoreStep \/ SkillsStep \/ VerdictStep \/ CandidateStep

SpecExtract == InitExtract /\ [][NextExtract]_vars

\* extract_score has run on analysis_text
Scored == epc \in {"score", "skills", "verdict", "candidate"}

\* C3: for any response text containing "Score: 73", extract_score yields 73, whatever
\* precedes or follows that occurrence.
C3_Score73Extracted ==
    (Scored /\ Contains(analysis_text, "Score: 73")) => score = Some(73)

\* C4: for any response text without the token "Score", extract_score returns None and
\* the candidate record built from the text has score 0.
C4_NoScoreTokenGivesZero ==
    ~Contains(analysis_text, "Score")
        => /\ Scored => score = None
           /\ epc = "candidate" => Val(candidate).score = 0

C4_Witness ==
    /\ epc = "candidate"
    /\ ~Contains(analysis_text, "Score")
    /\ FilterDigits(analysis_text) # ""
    /\ Val(candidate).score = 0

-----------------------------------------------------------------------------
(* frontend/stream.py: analyze_single_resume and the script *)

\* what requests.post gives the dashboard: None when it raises, else the response
\* analyze_single_resume(uploaded_file, job_description): [candidate, error]
analyze_single_resume(file, resp) ==
    IF IsNone(resp)
    THEN [candidate |-> None, error |-> Some("An error occurred: connection failed")]
    ELSE IF Val(resp).status = 200
         THEN LET text == IF "analysis" \in DOMAIN Val(resp).json
                          THEN Val(resp).json.analysis ELSE "No analysis provided."
              IN  [candidate |-> Some(make_candidate(file, text, extract_score(text),
                                                     extract_skills(text),
                                                     extract_verdict(text))),
                   error     |-> None]
         ELSE [candidate |-> None,
               error     |-> Some("Error: " \o (IF "error" \in DOMAIN Val(resp).json
                                                 THEN Val(resp).json.error
                                                 ELSE "Unknown error occurred."))]

\* any(c['name'] == name for c in st.session_state.evaluated_candidates)
NameStored(cands, name) == \E k \in 1..Len(cands) : cands[k].name = name

\* the replacement a last-write-wins store would make
StoreReplacing(cands, c) ==
    IF NameStored(cands, c.name)
    THEN [k \in 1..Len(cands) |-> IF cands[k].name = c.name THEN c ELSE cands[k]]
    ELSE Append(cands, c)

\* if not any(...): st.session_state.evaluated_candidates.append(candidate)
Store(cands, c) == IF NameStored(cands, c.name) THEN cands ELSE Append(cands, c)

\* the job description the dashboard sends (enhanced_job_description)
EnhancedJobDescription(job_description) ==
    "\n        Job Title: Data Scientist\n        Experience Level: Mid-Level\n"
    \o "        Key Skills: Python, Data Analysis, Machine Learning\n\n"
    \o "        Job Description:\n        " \o job_description \o "\n        "

\* the values the Minimum Score slider is moved to (it offers 0..100 in steps of 5)
MinScoreSamples == {0, 50}

\* the selections made in the Required Skills multiselect, whose options are the key skills
SkillSelections == {<<>>, <<"Python">>, <<"Python", "SQL">>}

\* the text typed into the Job Description area
JobDescriptions == {"   ", "Enter the job requirements here..."}

\* most files uploaded for one run
MaxFiles == 2

ReadablePdf   == [raises |-> FALSE, pages |-> <<Some("Python developer")>>]
ScannedPdf    == [raises |-> FALSE, pages |-> <<None>>]

AliceFile  == [name |-> "alice.pdf",    pdf |-> ReadablePdf]
AliceFile2 == [name |-> "alice.v2.pdf", pdf |-> ReadablePdf]
BobFile    == [name |-> "bob.pdf",      pdf |-> ReadablePdf]
ScanFile   == [name |-> "scan.pdf",     pdf |-> ScannedPdf]

\* the uploads analysed in one run, of at most MaxFiles files
RunSamples ==
    {l \in {<<AliceFile>>, <<BobFile>>, <<ScanFile>>,
            <<AliceFile, AliceFile2>>, <<AliceFile, BobFile>>, <<ScanFile, BobFile>>,
            <<BobFile, ScanFile, AliceFile2>>} : Len(l) <= MaxFiles}

\* what the model does for a dashboard request
DashAttempts ==
    {[at |-> "ok", text |-> "Score: 82/100\nStrengths:\n- Python\n- SQL\nWeaknesses:\n- none\nFinal Verdict: hire"],
     [at |-> "ok", text |-> "Score: 45\nStrengths:\n- Excel\nWeaknesses:\n- no Python\n\nNot a match."]}

Idle == last \notin {"run", "post", "handled"}

ChangeMinScoreRefiltering ==
    \E v \in MinScoreSamples :
        /\ Idle
        /\ v # min_score
        /\ min_score' = v
        /\ LET f == filter_candidates(evaluated_candidates, v, required_skills) IN
           /\ evaluated_candidates' = f.evaluated
           /\ filtered_candidates' = f.filtered
        /\ last' = "min_score"
        /\ UNCHANGED <<backendVars, extractVars, required_skills, uploaded_files, i,
                       successful_analyses, posted>>

\* the Minimum Score slider is moved: the script reruns and stores the value
ChangeMinScore ==
    \E v \in MinScoreSamples :
        /\ Idle
        /\ v # min_score
        /\ min_score' = v
        /\ last' = "min_score"
        /\ UNCHANGED <<backendVars, extractVars, evaluated_candidates, filtered_candidates,
                       required_skills, uploaded_files, i, successful_analyses, posted>>

\* the Required Skills selection is changed: the script reruns and stores the selection
ChangeRequiredSkills ==
    \E sel \in SkillSelections :
        /\ Idle
        /\ sel # required_skills
        /\ required_skills' = sel
        /\ last' = "required_skills"
        /\ UNCHANGED <<backendVars, extractVars, evaluated_candidates, filtered_candidates,
                       min_score, uploaded_files, i, successful_analyses, posted>>

\* Apply Filters is pressed while there are evaluated candidates
ApplyFilters ==
    /\ Idle
    /\ evaluated_candidates # <<>>
    /\ LET f == filter_candidates(evaluated_candidates, min_score, required_skills) IN
       /\ evaluated_candidates' = f.evaluated
       /\ filtered_candidates' = f.filtered
    /\ last' = "apply"
    /\ UNCHANGED <<backendVars, extractVars, min_score, required_skills, uploaded_files, i,
                   successful_analyses, posted>>

ClearAllKeepingQualified ==
    /\ Idle
    /\ evaluated_candidates # <<>>
    /\ evaluated_candidates' = <<>>
    /\ last' = "clear"
    /\ UNCHANGED <<backendVars, extractVars, filtered_candidates, min_score, required_skills,
                   uploaded_files, i, successful_analyses, posted>>

\* Clear All Candidates is pressed (the button shows only when there are candidates)
ClearAll ==
    /\ Idle
    /\ evaluated_candidates # <<>>
    /\ evaluated_candidates' = <<>>
    /\ filtered_candidates' = <<>>
    /\ last' = "clear"
    /\ UNCHANGED <<backendVars, extractVars, min_score, required_skills, uploaded_files, i,
                   successful_analyses, posted>>

\* Analyze Resumes is pressed with files uploaded and a non-blank job description
StartRun ==
    \E files \in RunSamples, jd \in JobDescriptions :
        /\ Idle
        /\ files # <<>>
        /\ Strip(jd) # ""
        /\ uploaded_files' = files
        /\ i' = 0
        /\ successful_analyses' = 0
        /\ posted' = <<>>
        /\ last' = "run"
        /\ UNCHANGED <<backendVars, extractVars, evaluated_candidates, filtered_candidates,
                       min_score, required_skills>>

\* the request analyze_single_resume posts for a file
DashRequest(file) ==
    [form  |-> [job_description |-> Some(EnhancedJobDescription("Enter the job requirements here..."))],
     files |-> [resume |-> Some(file)]]

\* requests.post for the next file: the backend answers it
Post ==
    \E primary \in DashAttempts :
        /\ last \in {"run", "handled"}
        /\ i < Len(uploaded_files)
        /\ Analyze(DashRequest(uploaded_files[i + 1]), primary, NoAttempt)
        /\ posted' = Append(posted, uploaded_files[i + 1])
        /\ last' = "post"
        /\ UNCHANGED <<extractVars, evaluated_candidates, filtered_candidates, min_score,
                       required_skills, uploaded_files, i, successful_analyses>>

\* requests.post for the next file raises: no response arrives
PostFails ==
    /\ last \in {"run", "handled"}
    /\ i < Len(uploaded_files)
    /\ request' = Some(DashRequest(uploaded_files[i + 1]))
    /\ response' = None
    /\ extracted' = FALSE
    /\ calls' = <<>>
    /\ posted' = Append(posted, uploaded_files[i + 1])
    /\ last' = "post"
    /\ UNCHANGED <<GOOGLE_API_KEY, model_to_use, available_models, extractVars,
                   evaluated_candidates, filtered_candidates, min_score, required_skills,
                   uploaded_files, i, successful_analyses>>

HandleStoppingOnError ==
    /\ last = "post"
    /\ LET r == analyze_single_resume(uploaded_files[i + 1], response) IN
       /\ candidate' = r.candidate
       /\ IF ~IsNone(r.candidate) /\ IsNone(r.error)
          THEN /\ evaluated_candidates' = Store(evaluated_candidates, Val(r.candidate))
               /\ successful_analyses' = successful_analyses + 1
               /\ i' = i + 1
          ELSE /\ UNCHANGED <<evaluated_candidates, successful_analyses>>
               /\ i' = Len(uploaded_files)
    /\ request' = None
    /\ response' = None
    /\ extracted' = FALSE
    /\ calls' = <<>>
    /\ last' = "handled"
    /\ UNCHANGED <<GOOGLE_API_KEY, model_to_use, available_models, analysis_text, score,
                   skills, verdict, epc, filtered_candidates, min_score, required_skills,
                   uploaded_files, posted>>

\* the rest of the loop body: the candidate is stored or the error shown
Handle ==
    /\ last = "post"
    /\ LET r == analyze_single_resume(uploaded_files[i + 1], response) IN
       /\ candidate' = r.candidate
       /\ IF ~IsNone(r.candidate) /\ IsNone(r.error)
          THEN /\ evaluated_candidates' = Store(evaluated_candidates, Val(r.candidate))
               /\ successful_analyses' = successful_analyses + 1
          ELSE UNCHANGED <<evaluated_candidates, successful_analyses>>
    /\ i' = i + 1
    /\ request' = None
    /\ response' = None
    /\ extracted' = FALSE
    /\ calls' = <<>>
    /\ last' = "handled"
    /\ UNCHANGED <<GOOGLE_API_KEY, model_to_use, available_models, analysis_text, score,
                   skills, verdict, epc, filtered_candidates, min_score, required_skills,
                   uploaded_files, posted>>

\* after the loop with at least one success: filter_candidates()
FinishRunFiltered ==
    /\ last = "handled"
    /\ i = Len(uploaded_files)
    /\ successful_analyses > 0
    /\ LET f == filter_candidates(evaluated_candidates, min_score, required_skills) IN
       /\ evaluated_candidates' = f.evaluated
       /\ filtered_candidates' = f.filtered
    /\ uploaded_files' = <<>>
    /\ i' = 0
    /\ successful_analyses' = 0
    /\ posted' = <<>>
    /\ candidate' = None
    /\ last' = "run_filtered"
    /\ UNCHANGED <<backendVars, analysis_text, score, skills, verdict, epc, min_score,
                   required_skills>>

FinishRunFailedFiltering ==
    /\ last = "handled"
    /\ i = Len(uploaded_files)
    /\ successful_analyses = 0
    /\ LET f == filter_candidates(evaluated_candidates, min_score, required_skills) IN
       /\ evaluated_candidates' = f.evaluated
       /\ filtered_candidates' = f.filtered
    /\ uploaded_files' = <<>>
    /\ i' = 0
    /\ posted' = <<>>
    /\ candidate' = None
    /\ last' = "run_failed"
    /\ UNCHANGED <<backendVars, analysis_text, score, skills, verdict, epc, min_score,
                   required_skills, successful_analyses>>

\* after the loop with no success: nothing more is done
FinishRunFailed ==
    /\ last = "handled"
    /\ i = Len(uploaded_files)
    /\ successful_analyses = 0
    /\ uploaded_files' = <<>>
    /\ i' = 0
    /\ posted' = <<>>
    /\ candidate' = None
    /\ last' = "run_failed"
    /\ UNCHANGED <<backendVars, analysis_text, score, skills, verdict, epc,
                   evaluated_candidates, filtered_candidates, min_score, required_skills,
                   successful_analyses>>

\* the backends the dashboard is run against
DashBackendStarted ==
    \E env \in {[GOOGLE_API_KEY |-> Some("AIzaSyA"), GEMINI_API_KEY |-> None]},
       listed \in {None} :
        LET g == Startup(env, TRUE, TRUE, listed) IN
        /\ GOOGLE_API_KEY = g.GOOGLE_API_KEY
        /\ model_to_use = g.model_to_use
        /\ available_models = g.available_models

Init == DashBackendStarted /\ BackendIdle /\ SessionEmpty /\ RunIdle /\ ExtractIdle

Next ==
    \/ ChangeMinScore
    \/ ChangeRequiredSkills
    \/ ApplyFilters
    \/ ClearAll
    \/ StartRun
    \/ Post
    \/ PostFails
    \/ Handle
    \/ FinishRunFiltered
    \/ FinishRunFailed

Spec == Init /\ [][Next]_vars

\* The analysis loop is straight-line code in one script run: while a run is in progress
\* the script takes its next step (requests.post returns or raises, the loop body runs,
\* the code after the loop runs).  Every step of a run moves the script position, and
\* no other action is enabled while a run is in progress.
LoopStep ==
    /\ last \in {"run", "post", "handled"}
    /\ last' \in {"post", "handled", "run_filtered", "run_failed"}
    /\ last' # last

RunFairness == WF_last(LoopStep)

SpecRun == Init /\ [][Next]_vars /\ RunFairness

-----------------------------------------------------------------------------
(* Claim about the candidate store, under Spec *)

\* the result of analyze_single_resume for the response being handled
Handled == analyze_single_resume(uploaded_files[i + 1], response)

\* the loop is about to store a successful analysis whose name is already stored
DuplicateAnalyzed ==
    /\ last = "post"
    /\ ~IsNone(Handled.candidate)
    /\ NameStored(evaluated_candidates, Val(Handled.candidate).name)

SameResult(c, d) == c.analysis = d.analysis /\ c.score = d.score /\ c.skills = d.skills

NamedCount(cands, name) == Cardinality({k \in 1..Len(cands) : cands[k].name = name})

\* C10 as stated: candidates are deduplicated by name with last-write-wins: after a file
\* whose derived name is already stored is analysed, the stored candidate of that name
\* carries the analysis, score and skills of the latest analysis, and the name is stored once.
C10_LastWriteWins ==
    [][DuplicateAnalyzed
        => /\ \A k \in 1..Len(evaluated_candidates') :
                evaluated_candidates'[k].name = Val(Handled.candidate).name
                    => SameResult(evaluated_candidates'[k], Val(Handled.candidate))
           /\ NamedCount(evaluated_candidates', Val(Handled.candidate).name) = 1]_vars

\* C10 amended: candidates are deduplicated by name with first-write-wins: after a file
\* whose derived name is already stored is analysed, the stored candidate of that name
\* keeps the analysis, score and skills it had (the new result is dropped, though counted
\* as a success), and the name is still stored exactly once.
C10_FirstWriteWins ==
    [][DuplicateAnalyzed
        => /\ Len(evaluated_candidates') = Len(evaluated_candidates)
           /\ \A k \in 1..Len(evaluated_candidates) :
                /\ evaluated_candidates'[k].name = evaluated_candidates[k].name
                /\ evaluated_candidates[k].name = Val(Handled.candidate).name
                    => SameResult(evaluated_candidates'[k], evaluated_candidates[k])
           /\ NamedCount(evaluated_candidates', Val(Handled.candidate).name) = 1
           /\ successful_analyses' = successful_analyses + 1]_vars

C10_Witness ==
    /\ last = "handled"
    /\ ~IsNone(candidate)
    /\ successful_analyses >= 1
    /\ \E k \in 1..Len(evaluated_candidates) :
        /\ evaluated_candidates[k].name = Val(candidate).name
        /\ evaluated_candidates[k].file # Val(candidate).file
        /\ ~SameResult(evaluated_candidates[k], Val(candidate))

-----------------------------------------------------------------------------
(* filter_candidates on arbitrary evaluated candidates: SpecFilter *)

\* most candidates in the session
MaxCandidates == 2

FilterScores == {49, 50, 100}

FilterSkillLists == {<<"PYTHON 3", "MySQL">>, <<"python">>}

RECURSIVE SkillBullets(_)
SkillBullets(list) ==
    IF list = <<>> THEN "" ELSE "- " \o list[1] \o "\n" \o SkillBullets(Tail(list))

\* an analysis text the model can return for these derived values
SynthText(sc, sk) ==
    "Score: " \o Str(sc) \o "\nStrengths:\n" \o SkillBullets(sk)
    \o "Weaknesses:\n- none\nFinal Verdict: see score"

SynthFile(k) == [name |-> "c" \o Str(k) \o ".pdf", pdf |-> ReadablePdf]

\* the candidate the dashboard builds for file k from a 200 response with that text
SynthCandidate(k, text) ==
    Val(analyze_single_resume(SynthFile(k),
                              Some([status |-> 200, json |-> [analysis |-> text]])).candidate)

SynthTexts == {SynthText(sc, sk) : sc \in FilterScores, sk \in FilterSkillLists}

\* the end of the loop of a run that analysed n new files, before filter_candidates()
InitFilter ==
    /\ DashBackendStarted /\ BackendIdle
    /\ analysis_text = "" /\ score = None /\ skills = <<>> /\ verdict = ""
    /\ epc = "idle"
    /\ \E n \in 1..MaxCandidates :
        \E texts \in [1..n -> SynthTexts] :
            /\ evaluated_candidates = [k \in 1..n |-> SynthCandidate(k, texts[k])]
            /\ uploaded_files = [k \in 1..n |-> SynthFile(k)]
            /\ posted = [k \in 1..n |-> SynthFile(k)]
            /\ i = n
            /\ successful_analyses = n
            /\ candidate = Some(SynthCandidate(n, texts[n]))
    /\ filtered_candidates = <<>>
    /\ min_score \in MinScoreSamples
    /\ required_skills \in SkillSelections
    /\ last = "handled"

NextFilter == FinishRunFiltered \/ ChangeMinScore \/ ChangeRequiredSkills \/ ApplyFilters

SpecFilter == InitFilter /\ [][NextFilter]_vars

\* filter_candidates has just run
FilterRan == last \in {"apply", "run_filtered"}

\* the candidates (by position) in the qualified list
Qualified == {filtered_candidates[k] : k \in 1..Len(filtered_candidates)}

\* C1: after filter_candidates with minimum score T and no required skills, the qualified
\* list holds exactly the evaluated candidates with score >= T; each candidate below T is
\* marked filtered_out and excluded, every other is included with filtered_out = FALSE.
C1_ScoreThresholdFilter ==
    (FilterRan /\ required_skills = <<>>)
        => /\ \A k \in 1..Len(evaluated_candidates) :
                IF evaluated_candidates[k].score < min_score
                THEN evaluated_candidates[k].filtered_out /\ k \notin Qualified
                ELSE ~evaluated_candidates[k].filtered_out /\ k \in Qualified
           /\ Qualified \subseteq 1..Len(evaluated_candidates)
           /\ Cardinality(Qualified) = Len(filtered_candidates)

C1_Witness ==
    /\ FilterRan
    /\ required_skills = <<>>
    /\ min_score = 50
    /\ \E k \in Qualified : evaluated_candidates[k].score = 50
    /\ \E k \in 1..Len(evaluated_candidates) :
        evaluated_candidates[k].score = 49 /\ k \notin Qualified

\* some extracted skill of c contains the required skill, ignoring case
HasSkill(c, skill) ==
    \E k \in 1..Len(c.skills) : Contains(Lower(c.skills[k]), Lower(skill))

HasAllRequired(c) == \A k \in 1..Len(required_skills) : HasSkill(c, required_skills[k])

\* C2: after filter_candidates with required skills, a candidate whose score passes is
\* qualified iff every required skill is a case-insensitive substring of one of its
\* extracted skills; one missing a required skill is marked filtered_out and excluded.
C2_RequiredSkillsFilter ==
    (FilterRan /\ required_skills # <<>>)
        => \A k \in 1..Len(evaluated_candidates) :
            evaluated_candidates[k].score >= min_score
                => /\ k \in Qualified <=> HasAllRequired(evaluated_candidates[k])
                   /\ ~HasAllRequired(evaluated_candidates[k])
                        => evaluated_candidates[k].filtered_out

C2_Witness ==
    /\ FilterRan
    /\ Len(required_skills) = 2
    /\ \E k \in Qualified :
        /\ "PYTHON 3" = evaluated_candidates[k].skills[1]
        /\ HasAllRequired(evaluated_candidates[k])
    /\ \E k \in 1..Len(evaluated_candidates) :
        /\ evaluated_candidates[k].score >= min_score
        /\ HasSkill(evaluated_candidates[k], "Python")
        /\ ~HasSkill(evaluated_candidates[k], "SQL")
        /\ evaluated_candidates[k].filtered_out
        /\ k \notin Qualified

-----------------------------------------------------------------------------
(* Claims about when the filter is recomputed, under SpecFilter *)

\* what the current parameters say about a candidate
ShouldFilter(c) == c.score < min_score \/ ~HasAllRequired(c)

\* the flags and the qualified list agree with the current parameters
FilterAgrees ==
    /\ \A k \in 1..Len(evaluated_candidates) :
        evaluated_candidates[k].filtered_out <=> ShouldFilter(evaluated_candidates[k])
    /\ Qualified = {k \in 1..Len(evaluated_candidates) : ~ShouldFilter(evaluated_candidates[k])}
    /\ Cardinality(Qualified) = Len(filtered_candidates)

\* a filter parameter has just been changed, and Apply Filters not pressed since
ParameterChanged == last \in {"min_score", "required_skills"}

\* C11 as stated: the filter is recomputed on every filter-parameter change: after any
\* change of the minimum score or of the required skills, with or without Apply Filters,
\* every filtered_out flag and the qualified list agree with the current parameters.
C11_RecomputedOnChange ==
    (ParameterChanged \/ FilterRan) => FilterAgrees

\* C11 amended: the filter is recomputed when Apply Filters is pressed with candidates
\* stored and at the end of a run with a success, and right after that the flags and the
\* qualified list agree with the current parameters; a change of the minimum score or of
\* the required skills alone leaves every flag and the qualified list as they were.
C11_RecomputedOnApply ==
    /\ [](FilterRan => FilterAgrees)
    /\ [][last' \in {"min_score", "required_skills"}
            => UNCHANGED <<evaluated_candidates, filtered_candidates>>]_vars

C11_Witness ==
    /\ ParameterChanged
    /\ evaluated_candidates # <<>>
    /\ ~FilterAgrees

-----------------------------------------------------------------------------
(* Claims about the stored candidates, under Spec *)

\* C12: in every reachable dashboard state the score of every stored candidate is an
\* integer in 0..100, whatever analysis text the backend returned.
C12_ScoreInRange ==
    \A k \in 1..Len(evaluated_candidates) :
        evaluated_candidates[k].score \in 0..100

-----------------------------------------------------------------------------
(* Claims about extract_score and extract_skills on arbitrary text, under SpecExtract *)

\* the text that follows the first occurrence of "Score"
AfterFirstScore(text) == SubSeq(text, Find(text, "Score") + Len("Score"), Len(text))

\* the positions of the digits of s
DigitPositions(s) == {k \in 1..Len(s) : IsDigit(Ch(s, k))}

\* the first run of consecutive digits of s ("" when s has no digit)
FirstDigitRun(s) ==
    IF DigitPositions(s) = {} THEN ""
    ELSE LET a == CHOOSE k \in DigitPositions(s) : \A j \in DigitPositions(s) : k <= j
             b == CHOOSE k \in a..Len(s) :
                    /\ \A j \in a..k : j \in DigitPositions(s)
                    /\ (k + 1) \notin DigitPositions(s)
         IN  SubSeq(s, a, b)

\* C13: extract_score returns the number formed by the first run of consecutive digits
\* that follows the first occurrence of "Score", and None when "Score" is absent or no
\* digits follow it.
C13_FirstDigitRunAfterScore ==
    Scored =>
        score = (IF Contains(analysis_text, "Score")
                 THEN ParseInt(FirstDigitRun(AfterFirstScore(analysis_text)))
                 ELSE None)

\* extract_skills has run on analysis_text
SkillsRead == epc \in {"skills", "verdict", "candidate"}

\* the text that follows the first occurrence of "Strengths:"
AfterStrengths(text) ==
    SubSeq(text, Find(text, "Strengths:") + Len("Strengths:"), Len(text))

\* the span between "Strengths:" and the "Weaknesses:" that follows it
StrengthsSpan(text) ==
    SubSeq(AfterStrengths(text), 1, Find(AfterStrengths(text), "Weaknesses:") - 1)

\* a bulleted line without its marker: the hyphen and the blanks around the item
Unmarked(line) == Strip(From(Strip(line), 1))

\* the bulleted lines of a list of lines, in order, each without its marker
RECURSIVE BulletItems(_)
BulletItems(lines) ==
    IF lines = <<>> THEN <<>>
    ELSE (IF StartsWith(Strip(lines[1]), "-") THEN <<Unmarked(lines[1])>> ELSE <<>>)
         \o BulletItems(Tail(lines))

\* C14: extract_skills returns, in order, exactly the lines beginning with "-" in the span
\* between "Strengths:" and "Weaknesses:", each with its hyphen marker removed and no
\* other character lost, and the empty list when the markers are absent.
C14_SkillsAreBulletLines ==
    SkillsRead =>
        IF ~Contains(analysis_text, "Strengths:") THEN skills = <<>>
        ELSE Contains(AfterStrengths(analysis_text), "Weaknesses:")
                => skills = BulletItems(Split(StrengthsSpan(analysis_text), "\n"))

-----------------------------------------------------------------------------
(* Claim about the analysis loop, under SpecRun *)

\* the run has ended: the code after the loop has run
RunEnded == last \in {"run_filtered", "run_failed"}

\* the requests sent so far are for the first files of the upload, in upload order
PostedInOrder ==
    /\ Len(posted) <= Len(uploaded_files)
    /\ \A k \in 1..Len(posted) : posted[k] = uploaded_files[k]

\* i files have been handled; at most the request for the next one is in flight
OneInFlight ==
    /\ Len(posted) \in {i, i + 1}
    /\ Len(posted) = i + 1 <=> last = "post"

\* the loop index stays within the upload, so the next step of the run is defined
LoopWithinFiles ==
    /\ last \in {"run", "post"} => i < Len(uploaded_files)
    /\ last = "handled" => i <= Len(uploaded_files) /\ successful_analyses \in 0..i

\* C15: in one run over f1..fn the dashboard sends exactly one /analyze request per file,
\* in upload order, the request for the next file only after the response for the
\* previous one has been handled; a failure for a file does not stop the run: every file
\* is attempted and the run ends after n requests.
C15_SequentialRequests ==
    /\ [](PostedInOrder /\ OneInFlight /\ LoopWithinFiles)
    /\ [][posted' # posted /\ posted' # <<>>
            => /\ posted' = Append(posted, uploaded_files[i + 1])
               /\ Len(posted) = i
               /\ request = None]_vars
    /\ [][RunEnded' /\ ~RunEnded => posted = uploaded_files /\ i = Len(uploaded_files)]_vars
    /\ (last = "run") ~> RunEnded

C15_Witness ==
    /\ last = "handled"
    /\ Len(uploaded_files) = 2
    /\ posted = uploaded_files
    /\ i = 2
    /\ successful_analyses = 1
    /\ ~NameStored(evaluated_candidates, Split(uploaded_files[1].name, ".")[1])

-----------------------------------------------------------------------------
(* Claims about filter_candidates, under SpecFilter *)

ScoreReason(c)  == StartsWith(c.filter_reason, "Score below minimum")
SkillsReason(c) == Contains(c.filter_reason, "Missing required skills")

\* C16: the score check takes precedence over the skill check: after filter_candidates a
\* candidate below the threshold is filtered out with the score reason only, a candidate
\* has a missing-skills reason only if its score is at or above the threshold, and a
\* candidate is filtered_out iff its filter_reason is non-empty.
C16_ScoreCheckFirst ==
    FilterRan =>
        \A k \in 1..Len(evaluated_candidates) :
            LET c == evaluated_candidates[k] IN
            /\ c.score < min_score
                => c.filtered_out /\ ScoreReason(c) /\ ~SkillsReason(c)
            /\ SkillsReason(c) => c.score >= min_score /\ ~ScoreReason(c)
            /\ c.filtered_out <=> c.filter_reason # ""

C16_Witness ==
    /\ FilterRan
    /\ \E k \in 1..Len(evaluated_candidates) :
        /\ evaluated_candidates[k].score < min_score
        /\ ~HasAllRequired(evaluated_candidates[k])
        /\ evaluated_candidates[k].filter_reason = "Score below minimum (49 < 50)"
    /\ \E k \in 1..Len(evaluated_candidates) : SkillsReason(evaluated_candidates[k])

-----------------------------------------------------------------------------
(* Claims about the session state, under Spec *)

\* every reference in filtered_candidates is to a candidate of evaluated_candidates
QualifiedAreEvaluated ==
    \A k \in 1..Len(filtered_candidates) :
        filtered_candidates[k] \in 1..Len(evaluated_candidates)

UniqueNames ==
    \A j, k \in 1..Len(evaluated_candidates) :
        j # k => evaluated_candidates[j].name # evaluated_candidates[k].name

\* C17: in every reachable dashboard state, after any sequence of runs, Apply Filters,
\* parameter changes and Clear All, every member of filtered_candidates is a member of
\* evaluated_candidates and no two evaluated candidates have the same name.
C17_QualifiedSubsetUniqueNames ==
    QualifiedAreEvaluated /\ UniqueNames

C17_Witness ==
    /\ last = "handled"
    /\ i = Len(uploaded_files)
    /\ Len(evaluated_candidates) = 2
    /\ Len(filtered_candidates) = 1
    /\ successful_analyses = 2
    /\ uploaded_files = <<AliceFile, AliceFile2>>

\* the answer being handled is a failure on the dashboard side: requests.post raised, or
\* the backend answered with a status other than 200
DashFailure == last = "post" /\ (IsNone(response) \/ Val(response).status # 200)

\* a run is in progress
RunActive == last \in {"run", "post", "handled"}

\* C18: when the analysis of a file fails on the dashboard side (a non-200 answer, or the
\* request raises), no candidate record is made for it and evaluated_candidates is not
\* changed by that file; and while no file of a run has succeeded, up to and including
\* the end of a run in which every file failed, filtered_candidates and every candidate
\* (its filtered_out flag with it) stay as they were.
C18_FailureChangesNothing ==
    [][/\ DashFailure
            => /\ candidate' = None
               /\ evaluated_candidates' = evaluated_candidates
               /\ successful_analyses' = successful_analyses
       /\ (RunActive /\ successful_analyses = 0 /\ successful_analyses' = 0)
            => UNCHANGED <<evaluated_candidates, filtered_candidates>>
       /\ last' = "run" => UNCHANGED <<evaluated_candidates, filtered_candidates>>]_vars

C18_Witness ==
    /\ last = "run_failed"
    /\ evaluated_candidates # <<>>
    /\ filtered_candidates # <<>>
    /\ ~FilterAgrees

\* everything of a candidate but its filter flag and reason
SameButFlags(c, d) ==
    /\ c.name = d.name
    /\ c.score = d.score
    /\ c.skills = d.skills
    /\ c.analysis = d.analysis
    /\ c.verdict = d.verdict
    /\ c.file = d.file

\* C19: filter_candidates changes only the filtered_out flags, the filter reasons and
\* filtered_candidates: membership and order of evaluated_candidates and every
\* candidate's name, score, skills, analysis and verdict stay, as do the parameters; and
\* running it again right after it ran, with the same parameters, changes nothing.
C19_FilterFrameIdempotent ==
    [][last' \in {"apply", "run_filtered"}
        => /\ Len(evaluated_candidates') = Len(evaluated_candidates)
           /\ \A k \in 1..Len(evaluated_candidates) :
                SameButFlags(evaluated_candidates'[k], evaluated_candidates[k])
           /\ UNCHANGED <<min_score, required_skills>>
           /\ last \in {"apply", "run_filtered"}
                => UNCHANGED <<evaluated_candidates, filtered_candidates>>]_vars

C19_Witness ==
    /\ last = "apply"
    /\ Len(evaluated_candidates) >= 2
    /\ \E k \in 1..Len(evaluated_candidates) : evaluated_candidates[k].filtered_out
    /\ filtered_candidates # <<>>

\* the values the Minimum Score slider offers
SliderScores == {5 * k : k \in 0..20}

\* the selection r holds every skill of the selection r0
Includes(r, r0) == \A k \in 1..Len(r0) : \E j \in 1..Len(r) : r[j] = r0[k]

\* the candidates (by position) a filter pass over the stored candidates would qualify
\* with minimum score m and required skills r
QualifiedWith(m, r) ==
    LET f == filter_candidates(evaluated_candidates, m, r).filtered
    IN  {f[k] : k \in 1..Len(f)}

\* C20: filtering is monotone in its parameters: for the same evaluated candidates, a
\* higher minimum score or more required skills never qualifies a candidate the current
\* parameters do not; and with minimum score 0 and no required skills every evaluated
\* candidate is qualified.
C20_FilterMonotone ==
    FilterRan =>
        /\ \A m \in SliderScores, r \in SkillSelections :
            (m >= min_score /\ Includes(r, required_skills))
                => QualifiedWith(m, r) \subseteq Qualified
        /\ (min_score = 0 /\ required_skills = <<>>)
            => Qualified = 1..Len(evaluated_candidates)

C20_Witness ==
    /\ FilterRan
    /\ min_score = 0
    /\ required_skills = <<>>
    /\ Len(evaluated_candidates) >= 2
    /\ Qualified = 1..Len(evaluated_candidates)
    /\ QualifiedWith(50, <<>>) # Qualified
    /\ QualifiedWith(50, <<>>) # {}
    /\ QualifiedWith(0, <<"Python", "SQL">>) # Qualified

====
